---- MODULE Spec2Model ----
(***************************************************************************)
(* Post lifecycle and time-slot scheduling of the X auto-posting system.   *)
(*                                                                         *)
(* The model follows src/src/scheduler.py (PostScheduler), the publishing  *)
(* client of src/src/api_handler.py (XAPIClient.post_tweet) and the driver *)
(* code of src/main.py that calls them (schedule_tweets, the --post-now    *)
(* branch, --clear) together with src/clear_pending.py.                    *)
(*                                                                         *)
(* Time is counted in minutes since midnight of day 0.  A text is a pair   *)
(* of a tag (its content) and its length in characters.  The persisted     *)
(* files data/scheduled.json and data/post_history.json are the variables  *)
(* store and history.  The fields id of a record, and the variables calls  *)
(* and last, are observers: they are not in the files, they record which   *)
(* record is which, how often the text of each record was submitted to the *)
(* platform (create_tweet), and what the last operation was, which records *)
(* it handed to post_tweet and what it returned.                           *)
(***************************************************************************)
EXTENDS Integers, Sequences, FiniteSets, TLC

\* ------------------------------------------------------------------ bounds
MaxStock == 2      \* records stocked over one behaviour
MaxBatch == 2      \* texts handed to one stock / schedule / post-now call
MaxClock == 480    \* last moment the clock reaches (day 0, 08:00)
MaxCalls == 2      \* submissions to the platform observed per record
MaxTweets == 11    \* records in a list handed to one assign (SpecAssign)
MaxPasses == 2     \* passes one daemon begins (SpecDaemon)
MaxMentions == 3   \* mentions the account receives (SpecReply)

\* --------------------------------------------------------------- constants
MinutesPerDay == 1440
TweetLimit == 140
PendingCount == 10
StartClock == 6 * 60  \* the behaviour starts on day 0 at 06:00

\* the texts the callers hand in: one of exactly the platform limit and one
\* that is one character too long
Texts ==
  { [tag |-> "a", len |-> 140],
    [tag |-> "b", len |-> 141] }

\* minutes by which the clock advances between two operations
TickSteps == {60}

AbsentTime == << >>
NullTime == << -1 >>
AbsentStr == "<absent>"
AbsentId == -1
PyNone == -1       \* what a method without a return statement hands back

Terminal == {"posted", "failed", "dry_run", "no_api"}

\* PEAK_SLOTS
PEAK_SLOTS ==
  << [time |-> <<7, 0>>,   period |-> "morning"],
     [time |-> <<8, 0>>,   period |-> "morning"],
     [time |-> <<9, 0>>,   period |-> "morning"],
     [time |-> <<12, 0>>,  period |-> "noon"],
     [time |-> <<12, 30>>, period |-> "noon"],
     [time |-> <<13, 0>>,  period |-> "noon"],
     [time |-> <<20, 0>>,  period |-> "evening"],
     [time |-> <<21, 0>>,  period |-> "evening"],
     [time |-> <<22, 0>>,  period |-> "evening"],
     [time |-> <<23, 0>>,  period |-> "evening"] >>

VARIABLES store, history, now, nextId, calls, last

vars == <<store, history, now, nextId, calls, last>>

\* ----------------------------------------------------------- conversions
\* datetime.isoformat(): the moment written as calendar day, hour, minute
isoformat(t) == << t \div MinutesPerDay, (t % MinutesPerDay) \div 60, t % 60 >>

\* datetime.fromisoformat(): the moment read back from day, hour, minute
fromisoformat(s) == s[1] * MinutesPerDay + s[2] * 60 + s[3]

Min(a, b) == IF a <= b THEN a ELSE b

Range(f) == { f[i] : i \in DOMAIN f }

\* the records of s whose status is st, in store order
RECURSIVE SelectStatus(_, _)
SelectStatus(s, keep) ==
  IF s = << >> THEN << >>
  ELSE IF keep[Head(s).status]
       THEN <<Head(s)>> \o SelectStatus(Tail(s), keep)
       ELSE SelectStatus(Tail(s), keep)

\* ------------------------------------------------------------ stock_tweets
\* the record stock_tweets builds for one text
NewRecord(text, id, t) ==
  [ id |-> id,
    text |-> text,
    status |-> "pending",
    created_at |-> isoformat(t),
    posted_at |-> NullTime,
    scheduled_time |-> AbsentTime,
    period |-> AbsentStr,
    tweet_id |-> AbsentId,
    error |-> AbsentStr ]

\* a stock that puts the new records in front of the existing ones
stock_tweets_Prepend(existing, tweets, firstId, t) ==
  [ i \in 1..Len(tweets) |-> NewRecord(tweets[i], firstId + i - 1, t) ] \o existing

\* stock_tweets: existing.append(...) for each text, in input order
stock_tweets(existing, tweets, firstId, t) ==
  existing \o [ i \in 1..Len(tweets) |-> NewRecord(tweets[i], firstId + i - 1, t) ]

\* ------------------------------------------------------ get_pending_tweets
IsPending == [ st \in Terminal \cup {"pending"} |-> st = "pending" ]

NotPending == [ st \in Terminal \cup {"pending"} |-> st # "pending" ]

get_pending_tweets(scheduled, count) ==
  LET pending == SelectStatus(scheduled, IsPending)
  IN  SubSeq(pending, 1, Min(count, Len(pending)))

\* ------------------------------------------------------- assign_time_slots
\* a slot time that is never moved to the next day
SlotMoment_NeverNextDay(slot, t) ==
  (t \div MinutesPerDay) * MinutesPerDay + slot.time[1] * 60 + slot.time[2]

\* a slot time that is moved to the next day only when it is before t
SlotMoment_StrictlyBefore(slot, t) ==
  LET today == t \div MinutesPerDay
      scheduled_time == today * MinutesPerDay + slot.time[1] * 60 + slot.time[2]
  IN  IF scheduled_time < t THEN scheduled_time + MinutesPerDay ELSE scheduled_time

\* the slot's time of day on the day of t, moved to the next day when it
\* is not after t
SlotMoment(slot, t) ==
  LET today == t \div MinutesPerDay
      scheduled_time == today * MinutesPerDay + slot.time[1] * 60 + slot.time[2]
  IN  IF scheduled_time <= t THEN scheduled_time + MinutesPerDay ELSE scheduled_time

\* an assign that sets the time and forgets the period
assign_time_slots_NoPeriod(tweets, t) ==
  LET slots == SubSeq(PEAK_SLOTS, 1, Min(Len(tweets), Len(PEAK_SLOTS)))
  IN  [ i \in 1..Len(tweets) |->
          IF i <= Len(slots)
          THEN [ tweets[i] EXCEPT !.scheduled_time = isoformat(SlotMoment(slots[i], t)) ]
          ELSE tweets[i] ]

assign_time_slots(tweets, t) ==
  LET slots == SubSeq(PEAK_SLOTS, 1, Min(Len(tweets), Len(PEAK_SLOTS)))
  IN  [ i \in 1..Len(tweets) |->
          IF i <= Len(slots)
          THEN [ tweets[i] EXCEPT !.scheduled_time = isoformat(SlotMoment(slots[i], t)),
                                  !.period = slots[i].period ]
          ELSE tweets[i] ]

\* ------------------------------------------- schedule_tweets (write-back)
\* the first assigned record with the text of item, 0 when there is none
FirstMatch(item, assigned) ==
  LET js == { j \in 1..Len(assigned) : assigned[j].text = item.text }
  IN  IF js = {} THEN 0 ELSE CHOOSE j \in js : \A k \in js : j <= k

\* a write-back that does not test the status of item
WriteBack_AnyStatus(all_scheduled, assigned) ==
  [ i \in 1..Len(all_scheduled) |->
      LET item == all_scheduled[i]
          j == FirstMatch(item, assigned)
      IN  IF j # 0
          THEN [ item EXCEPT !.scheduled_time = assigned[j].scheduled_time,
                             !.period = assigned[j].period ]
          ELSE item ]

\* a write-back that puts the assigned item in place of the stored record
WriteBack_ReplacesRecord(all_scheduled, assigned) ==
  [ i \in 1..Len(all_scheduled) |->
      LET item == all_scheduled[i]
          j == FirstMatch(item, assigned)
      IN  IF item.status = "pending" /\ j # 0 THEN assigned[j] ELSE item ]

\* for item in all_scheduled: for assigned_item in assigned: if the texts
\* are equal and item is pending, copy scheduled_time and period; break
WriteBack(all_scheduled, assigned) ==
  [ i \in 1..Len(all_scheduled) |->
      LET item == all_scheduled[i]
          j == FirstMatch(item, assigned)
      IN  IF item.status = "pending" /\ j # 0
          THEN [ item EXCEPT !.scheduled_time = assigned[j].scheduled_time,
                             !.period = assigned[j].period ]
          ELSE item ]

\* schedule_tweets: stock, take the first 10 pending, assign, write back
schedule_tweets(existing, approved_tweets, firstId, t) ==
  LET stocked == stock_tweets(existing, approved_tweets, firstId, t)
      pending == get_pending_tweets(stocked, PendingCount)
      assigned == assign_time_slots(pending, t)
  IN  WriteBack(stocked, assigned)

\* ------------------------------------------------- XAPIClient.post_tweet
\* what create_tweet answers is the platform's choice (outcome); the id of
\* a created tweet is fresh for every creation
TweetIdFor(id, n) == id * 10 + n

post_tweet(text, outcome, tid) ==
  IF text.len > TweetLimit
  THEN [ raised |-> TRUE, success |-> FALSE, tweet_id |-> AbsentId,
         error |-> AbsentStr, text |-> text ]
  ELSE IF outcome = "ok"
       THEN [ raised |-> FALSE, success |-> TRUE, tweet_id |-> tid,
              error |-> AbsentStr, text |-> text ]
       ELSE [ raised |-> FALSE, success |-> FALSE, tweet_id |-> AbsentId,
              error |-> "TweepyException", text |-> text ]

\* ------------------------------------------------------ execute_scheduled
\* a loop that does not skip the records that are not pending
IsCandidate_AnyStatus(item) ==
  item.scheduled_time # AbsentTime

\* the two continue tests of the loop, negated
IsCandidate(item) ==
  item.status = "pending" /\ item.scheduled_time # AbsentTime

\* a loop that does not compare the time
TimeHasCome_Always(item, t) == TRUE

\* if scheduled_time <= now
\* a comparison turned round: only a time that is not yet past counts
TimeHasCome_Inverted(item, t) == fromisoformat(item.scheduled_time) >= t

TimeHasCome(item, t) == fromisoformat(item.scheduled_time) <= t

DryRunItem(item) == [ item EXCEPT !.status = "dry_run" ]

\* a missing client recorded as a failure
NoApiItem_AsFailed(item) == [ item EXCEPT !.status = "failed" ]

NoApiItem(item) == [ item EXCEPT !.status = "no_api" ]

\* the two branches on result["success"]
ApplyResult(item, result, t) ==
  IF result.success
  THEN [ item EXCEPT !.status = "posted",
                     !.posted_at = isoformat(t),
                     !.tweet_id = result.tweet_id ]
  ELSE [ item EXCEPT !.status = "failed", !.error = result.error ]

DryResult(text) ==
  [ text |-> text,
    result |-> [ kind |-> "dry_run", success |-> FALSE, tweet_id |-> AbsentId,
                 error |-> AbsentStr ] ]

ApiResult(text, result) ==
  [ text |-> text,
    result |-> [ kind |-> "api", success |-> result.success,
                 tweet_id |-> result.tweet_id, error |-> result.error ] ]

\* observer: the record handed to post_tweet and what post_tweet did
Report(id, result) ==
  [ id |-> id,
    report |-> IF result.raised THEN "raise"
               ELSE IF result.success THEN "ok" ELSE "err" ]

\* a loop body that asks for the client before it asks for dry_run
ProcessDue_ClientFirst(i, acc, t, dry_run, api, outcome) ==
  LET item == acc.items[i]
  IN  IF api
      THEN LET result == post_tweet(item.text, outcome,
                                    TweetIdFor(item.id, calls[item.id] + 1))
           IN  IF result.raised
               THEN [ acc EXCEPT !.raised = TRUE,
                                 !.called = Append(@, Report(item.id, result)) ]
               ELSE [ acc EXCEPT !.items[i] = ApplyResult(item, result, t),
                                 !.results = Append(@, ApiResult(item.text, result)),
                                 !.called = Append(@, Report(item.id, result)) ]
      ELSE IF dry_run
           THEN [ acc EXCEPT !.items[i] = DryRunItem(item),
                             !.results = Append(@, DryResult(item.text)) ]
           ELSE [ acc EXCEPT !.items[i] = NoApiItem(item) ]

\* the body of the loop for one item that is due
ProcessDue(i, acc, t, dry_run, api, outcome) ==
  LET item == acc.items[i]
  IN  IF dry_run
      THEN [ acc EXCEPT !.items[i] = DryRunItem(item),
                        !.results = Append(@, DryResult(item.text)) ]
      ELSE IF api
           THEN LET result == post_tweet(item.text, outcome,
                                         TweetIdFor(item.id, calls[item.id] + 1))
                IN  IF result.raised
                    THEN [ acc EXCEPT !.raised = TRUE,
                                      !.called = Append(@, Report(item.id, result)) ]
                    ELSE [ acc EXCEPT !.items[i] = ApplyResult(item, result, t),
                                      !.results = Append(@, ApiResult(item.text, result)),
                                      !.called = Append(@, Report(item.id, result)) ]
           ELSE [ acc EXCEPT !.items[i] = NoApiItem(item) ]

\* for item in scheduled: ... ; an exception of post_tweet ends the loop
RECURSIVE RunItems(_, _, _, _, _, _)
\* a loop that takes a pending record without scheduled_time as due
RunItems_MissingTimeIsDue(i, acc, t, dry_run, api, oc) ==
  IF i > Len(acc.items) \/ acc.raised
  THEN acc
  ELSE IF /\ acc.items[i].status = "pending"
          /\ (acc.items[i].scheduled_time = AbsentTime \/ TimeHasCome(acc.items[i], t))
       THEN RunItems(i + 1, ProcessDue(i, acc, t, dry_run, api, oc[i]),
                     t, dry_run, api, oc)
       ELSE RunItems(i + 1, acc, t, dry_run, api, oc)

RunItems(i, acc, t, dry_run, api, oc) ==
  IF i > Len(acc.items) \/ acc.raised
  THEN acc
  ELSE IF IsCandidate(acc.items[i]) /\ TimeHasCome(acc.items[i], t)
       THEN RunItems(i + 1, ProcessDue(i, acc, t, dry_run, api, oc[i]),
                     t, dry_run, api, oc)
       ELSE RunItems(i + 1, acc, t, dry_run, api, oc)

execute_scheduled(scheduled, t, dry_run, api, oc) ==
  RunItems(1, [ items |-> scheduled, results |-> << >>, called |-> << >>,
                raised |-> FALSE ], t, dry_run, api, oc)

\* _update_history: one entry per result, appended to the log
\* a history update that writes the new entries only
_update_history_Overwrites(log, results, t) ==
  [ i \in 1..Len(results) |->
      [ text |-> results[i].text,
        timestamp |-> isoformat(t),
        result |-> results[i].result ] ]

_update_history(log, results, t) ==
  log \o [ i \in 1..Len(results) |->
             [ text |-> results[i].text,
               timestamp |-> isoformat(t),
               result |-> results[i].result ] ]

\* -------------------------------------------------------- clear_completed
\* a clear that also keeps the failed records
KeepsFailed == [ st \in Terminal \cup {"pending"} |-> st \in {"pending", "failed"} ]

clear_completed_KeepsFailed(scheduled) == SelectStatus(scheduled, KeepsFailed)

\* a clear that removes from the list it iterates over: the record behind
\* a removed one is passed over
RECURSIVE clear_completed_RemoveInLoop(_)
clear_completed_RemoveInLoop(scheduled) ==
  IF scheduled = << >> THEN << >>
  ELSE IF Head(scheduled).status # "pending"
       THEN IF Len(scheduled) >= 2
            THEN <<scheduled[2]>> \o clear_completed_RemoveInLoop(Tail(Tail(scheduled)))
            ELSE << >>
       ELSE <<Head(scheduled)>> \o clear_completed_RemoveInLoop(Tail(scheduled))

\* remaining = [s for s in scheduled if s["status"] == "pending"]
clear_completed(scheduled) == SelectStatus(scheduled, IsPending)

\* clear_completed computes the number of removed records for its log line
\* and ends without a return statement
clear_completed_returns(scheduled) == PyNone

\* clear_pending.py keeps the records that are not pending
clear_pending(data) == SelectStatus(data, NotPending)

\* ---------------------------------------------------------------- actions
Batches(lo) ==
  UNION { [ 1..n -> Texts ] : n \in lo..MaxBatch }

Outcomes == {"ok", "err"}

\* again: the operation before this one was the same operation (kept for
\* clear_completed only)
Note(op, texts, dry_run, api, raised, results, called) ==
  [ op |-> op, texts |-> texts, dry_run |-> dry_run, api |-> api,
    raised |-> raised, results |-> results, called |-> called,
    again |-> FALSE, returned |-> PyNone ]

Init ==
  /\ store = << >>
  /\ history = << >>
  /\ now = StartClock
  /\ nextId = 1
  /\ calls = [ id \in 1..MaxStock |-> 0 ]
  /\ last = Note("init", << >>, FALSE, FALSE, FALSE, << >>, {})

\* time passes between two operations
Tick(d) ==
  /\ now + d <= MaxClock
  /\ now' = now + d
  /\ last' = Note("tick", << >>, FALSE, FALSE, FALSE, << >>, {})
  /\ UNCHANGED <<store, history, nextId, calls>>

\* PostScheduler.stock_tweets(tweets)
Stock(tweets) ==
  /\ nextId - 1 + Len(tweets) <= MaxStock
  /\ store' = stock_tweets(store, tweets, nextId, now)
  /\ nextId' = nextId + Len(tweets)
  /\ last' = Note("stock", tweets, FALSE, FALSE, FALSE, << >>, {})
  /\ UNCHANGED <<history, now, calls>>

\* main.schedule_tweets(approved_tweets, api_client)
ScheduleTweets(approved_tweets) ==
  /\ nextId - 1 + Len(approved_tweets) <= MaxStock
  /\ store' = schedule_tweets(store, approved_tweets, nextId, now)
  /\ nextId' = nextId + Len(approved_tweets)
  /\ last' = Note("schedule", approved_tweets, FALSE, FALSE, FALSE, << >>, {})
  /\ UNCHANGED <<history, now, calls>>

\* main, --post-now: the texts are stocked and saved; the loop that is to
\* move every pending record into the past then evaluates timedelta, a name
\* main.py never imports, at its first pending record (there is one: the
\* approved list is not empty), and the NameError ends the run before the
\* second save and before execute_scheduled
PostNow(approved) ==
  /\ nextId - 1 + Len(approved) <= MaxStock
  /\ store' = stock_tweets(store, approved, nextId, now)
  /\ nextId' = nextId + Len(approved)
  /\ last' = Note("post_now", approved, FALSE, FALSE, TRUE, << >>, {})
  /\ UNCHANGED <<history, now, calls>>

\* PostScheduler.execute_scheduled(dry_run), api: a client is configured.
\* An exception of post_tweet leaves the method before _save_scheduled and
\* _update_history: the files keep their content, the calls were made.
ExecuteScheduled(dry_run, api, oc) ==
  LET pass == execute_scheduled(store, now, dry_run, api, oc)
      submitted == { r.id : r \in { c \in Range(pass.called) : c.report # "raise" } }
  IN  /\ \A id \in submitted : calls[id] < MaxCalls
      /\ calls' = [ id \in DOMAIN calls |->
                      IF id \in submitted THEN calls[id] + 1 ELSE calls[id] ]
      /\ store' = IF pass.raised THEN store ELSE pass.items
      /\ history' = IF pass.raised THEN history
                    ELSE _update_history(history, pass.results, now)
      /\ last' = Note("execute", << >>, dry_run, api, pass.raised,
                      IF pass.raised THEN << >> ELSE pass.results,
                      Range(pass.called))
      /\ UNCHANGED <<now, nextId>>

\* PostScheduler.clear_completed(), main --clear
ClearCompleted ==
  /\ store' = clear_completed(store)
  /\ last' = [ Note("clear_completed", << >>, FALSE, FALSE, FALSE, << >>, {})
                EXCEPT !.again = (last.op = "clear_completed"),
                       !.returned = clear_completed_returns(store) ]
  /\ UNCHANGED <<history, now, nextId, calls>>

\* clear_pending.py
ClearPending ==
  /\ store' = clear_pending(store)
  /\ last' = Note("clear_pending", << >>, FALSE, FALSE, FALSE, << >>, {})
  /\ UNCHANGED <<history, now, nextId, calls>>

\* the answers of the platform to the publish calls of one pass, one per
\* store position; a pass that makes no call needs none
Answers(dry_run, api) ==
  IF ~dry_run /\ api
  THEN [ 1..Len(store) -> Outcomes ]
  ELSE { [ i \in 1..Len(store) |-> "ok" ] }

Next ==
  \/ \E d \in TickSteps : Tick(d)
  \/ \E tweets \in Batches(0) : Stock(tweets)
  \/ \E tweets \in Batches(0) : ScheduleTweets(tweets)
  \/ \E tweets \in Batches(1) : PostNow(tweets)
  \/ \E dry_run \in BOOLEAN, api \in BOOLEAN :
        \E oc \in Answers(dry_run, api) : ExecuteScheduled(dry_run, api, oc)
  \/ ClearCompleted
  \/ ClearPending

Spec == Init /\ [][Next]_vars

\* ------------------------------------------- slot assignment on its own
\* SpecAssign: a list of up to MaxTweets stocked records, none assigned
\* yet, at one of the moments below; then one assign: either
\* assign_time_slots called on the list, or the driver's assign-and-persist
\* (schedule_tweets) with one more approved text.

\* 00:00, 06:00, 07:00 (the first slot), 08:00, 12:30 (the fifth slot),
\* 12:45, 23:00 (the last slot), 23:30 of day 0 and 08:00 of day 1
AssignMoments == {0, 360, 420, 480, 750, 765, 1380, 1410, 1920}

TagNames ==
  << "t1", "t2", "t3", "t4", "t5", "t6", "t7", "t8", "t9", "t10", "t11",
     "t12", "t13" >>

TextOf(i) == [tag |-> TagNames[i], len |-> TweetLimit]

InitAssign ==
  \E n \in 0..MaxTweets, t \in AssignMoments :
    /\ store = stock_tweets(<< >>, [ i \in 1..n |-> TextOf(i) ], 1, t)
    /\ history = << >>
    /\ now = t
    /\ nextId = n + 1
    /\ calls = [ id \in 1..(MaxTweets + 1) |-> 0 ]
    /\ last = Note("init", << >>, FALSE, FALSE, FALSE, << >>, {})

\* PostScheduler.assign_time_slots(tweets) on the whole list
AssignTimeSlots ==
  /\ last.op = "init"
  /\ store' = assign_time_slots(store, now)
  /\ last' = Note("assign", << >>, FALSE, FALSE, FALSE, << >>, {})
  /\ UNCHANGED <<history, now, nextId, calls>>

\* main.schedule_tweets(approved_tweets, api_client) with one approved text
AssignAndPersist(approved_tweets) ==
  /\ last.op = "init"
  /\ Len(store) + Len(approved_tweets) <= MaxTweets
  /\ store' = schedule_tweets(store, approved_tweets, nextId, now)
  /\ nextId' = nextId + Len(approved_tweets)
  /\ last' = Note("schedule", approved_tweets, FALSE, FALSE, FALSE, << >>, {})
  /\ UNCHANGED <<history, now, calls>>

\* the approved text is a new one or the text of the first stocked record
NextAssign ==
  \/ AssignTimeSlots
  \/ \E i \in {1, Len(store) + 1} : AssignAndPersist(<< TextOf(i) >>)

SpecAssign == InitAssign /\ [][NextAssign]_vars

\* ------------------------------------------------- end-to-end scenario
\* SpecScenario: from an empty store, three approved texts are stocked and
\* assigned (main.schedule_tweets), then one record is to be forced into the
\* past (main --post-now, the only code that moves a scheduled_time), then
\* execute_scheduled runs with dry_run off and a client whose create_tweet
\* always succeeds. No time passes between the steps.

ScenarioTexts == { TextOf(1), TextOf(2), TextOf(3) }

\* the three texts in any order, each once
ScenarioBatches ==
  { b \in [ 1..Cardinality(ScenarioTexts) -> ScenarioTexts ] :
      \A i, j \in DOMAIN b : b[i] = b[j] => i = j }

InitScenario ==
  \E t \in AssignMoments :
    /\ store = << >>
    /\ history = << >>
    /\ now = t
    /\ nextId = 1
    /\ calls = [ id \in 1..(Cardinality(ScenarioTexts) + 1) |-> 0 ]
    /\ last = Note("init", << >>, FALSE, FALSE, FALSE, << >>, {})

\* main.schedule_tweets(approved_tweets, api_client) with three texts
ScenarioSchedule(approved_tweets) ==
  /\ last.op = "init"
  /\ store' = schedule_tweets(store, approved_tweets, nextId, now)
  /\ nextId' = nextId + Len(approved_tweets)
  /\ last' = Note("schedule", approved_tweets, FALSE, FALSE, FALSE, << >>, {})
  /\ UNCHANGED <<history, now, calls>>

\* main, --post-now with one approved text: stock, save, NameError
ScenarioForce(approved) ==
  /\ last.op = "schedule"
  /\ store' = stock_tweets(store, approved, nextId, now)
  /\ nextId' = nextId + Len(approved)
  /\ last' = Note("post_now", approved, FALSE, FALSE, TRUE, << >>, {})
  /\ UNCHANGED <<history, now, calls>>

\* main --execute-scheduled, dry_run off, every create_tweet succeeds
ScenarioExecute ==
  /\ last.op = "post_now"
  /\ ExecuteScheduled(FALSE, TRUE, [ i \in 1..Len(store) |-> "ok" ])

NextScenario ==
  \/ \E approved_tweets \in ScenarioBatches : ScenarioSchedule(approved_tweets)
  \/ \E i \in {1, Len(store) + 1} : ScenarioForce(<< TextOf(i) >>)
  \/ ScenarioExecute

SpecScenario == InitScenario /\ [][NextScenario]_vars

\* ---------------------------------------------- the store file, by steps
\* SpecFile: one operation of the scheduler on scheduled.json, step by step.
\* Here store is the file itself, [exists, text], text being the sequence of
\* tokens json.dump has written, and last is the running operation: its
\* name, its position (phase), what it loaded, what it is about to save, the
\* tokens still to be written and the file as the operation found it.

\* JSON values: null, or a value of the field's type
JsonNull == [ null |-> TRUE, v |-> << >> ]

JsonVal(x) == [ null |-> FALSE, v |-> x ]

\* the keys a record dict can hold; id stands for the record's identity
RecordKeys == DOMAIN NewRecord(TextOf(1), 1, 0)

\* the key is not in the dict
KeyAbsent(r, k) ==
  \/ k \in {"posted_at", "scheduled_time"} /\ r[k] = AbsentTime
  \/ k = "period" /\ r[k] = AbsentStr
  \/ k = "tweet_id" /\ r[k] = AbsentId
  \/ k = "error" /\ r[k] = AbsentStr

\* the key holds None
KeyNone(r, k) == k \in {"posted_at", "scheduled_time"} /\ r[k] = NullTime

\* an encoder that leaves out the keys that hold None
dump_record_SkipsNone(r) ==
  [ k \in { k \in RecordKeys : ~ KeyAbsent(r, k) /\ ~ KeyNone(r, k) } |->
      JsonVal(r[k]) ]

\* json.dump of one dict: an object with the dict's keys, None as null
dump_record(r) ==
  [ k \in { k \in RecordKeys : ~ KeyAbsent(r, k) } |->
      IF KeyNone(r, k) THEN JsonNull ELSE JsonVal(r[k]) ]

KeyMissing(k) ==
  CASE k \in {"posted_at", "scheduled_time"} -> AbsentTime
    [] k = "period" -> AbsentStr
    [] k = "tweet_id" -> AbsentId
    [] k = "error" -> AbsentStr

NullStr == "<null>"
NullId == -2

\* None as the value of a key
KeyNull(k) ==
  CASE k \in {"created_at", "posted_at", "scheduled_time"} -> NullTime
    [] k \in {"status", "period", "error"} -> NullStr
    [] k \in {"id", "tweet_id"} -> NullId
    [] k = "text" -> [ tag |-> NullStr, len |-> 0 ]

\* json.load of one object: null as None, a key the object lacks stays
\* out of the dict
load_record(o) ==
  [ k \in RecordKeys |->
      IF k \in DOMAIN o
      THEN IF o[k].null THEN KeyNull(k) ELSE o[k].v
      ELSE KeyMissing(k) ]

EmptyObject == [ k \in {} |-> JsonNull ]

OpenToken == [ kind |-> "open", obj |-> EmptyObject ]

CloseToken == [ kind |-> "close", obj |-> EmptyObject ]

GarbageToken == [ kind |-> "garbage", obj |-> EmptyObject ]

\* json.dump(data, f): the list bracket, one object per record, the bracket
dumps(data) ==
  << OpenToken >>
    \o [ i \in 1..Len(data) |-> [ kind |-> "obj", obj |-> dump_record(data[i]) ] ]
    \o << CloseToken >>

\* json.load accepts the text
Parseable(text) ==
  /\ Len(text) >= 2
  /\ text[1].kind = "open"
  /\ text[Len(text)].kind = "close"
  /\ \A i \in 2..(Len(text) - 1) : text[i].kind = "obj"

loads(text) == [ i \in 1..(Len(text) - 2) |-> load_record(text[i + 1].obj) ]

\* a load that takes a file it cannot parse for an empty store
_load_scheduled_EmptyOnBadFile(file) ==
  IF file.exists /\ Parseable(file.text)
  THEN [ raised |-> FALSE, data |-> loads(file.text) ]
  ELSE [ raised |-> FALSE, data |-> << >> ]

\* _load_scheduled: [] when there is no file, else json.load, whose
\* JSONDecodeError is not caught
_load_scheduled(file) ==
  IF ~ file.exists THEN [ raised |-> FALSE, data |-> << >> ]
  ELSE IF ~ Parseable(file.text) THEN [ raised |-> TRUE, data |-> << >> ]
  ELSE [ raised |-> FALSE, data |-> loads(file.text) ]


\* records as the scheduler leaves them in the file: stocked, assigned,
\* posted, failed
SampleRecords ==
  << NewRecord(TextOf(1), 1, 0),
     assign_time_slots(<< NewRecord(TextOf(2), 2, 0) >>, 0)[1],
     ApplyResult(assign_time_slots(<< NewRecord(TextOf(3), 3, 0) >>, 0)[1],
                 post_tweet(TextOf(3), "ok", TweetIdFor(3, 1)), 7 * 60),
     ApplyResult(assign_time_slots(<< NewRecord(TextOf(4), 4, 0) >>, 0)[1],
                 post_tweet(TextOf(4), "err", TweetIdFor(4, 1)), 7 * 60) >>

\* the records chosen by S, in the order of SampleRecords
Chosen(S) ==
  [ i \in 1..Cardinality(S) |->
      SampleRecords[CHOOSE k \in S : Cardinality({ j \in S : j <= k }) = i] ]

\* no file, an empty file, a file that is not JSON, a saved collection
SampleFiles ==
  { [ exists |-> FALSE, text |-> << >> ],
    [ exists |-> TRUE, text |-> << >> ],
    [ exists |-> TRUE, text |-> << GarbageToken >> ] }
    \cup { [ exists |-> TRUE, text |-> dumps(Chosen(S)) ] :
             S \in SUBSET (1..Len(SampleRecords)) }

FileOps == {"stock", "execute", "clear_completed", "summary"}

FileNote(op, phase, raised, loaded, data, rest, before) ==
  [ op |-> op, phase |-> phase, raised |-> raised, loaded |-> loaded,
    data |-> data, rest |-> rest, before |-> before ]

InitFile ==
  \E file \in SampleFiles :
    /\ store = file
    /\ history = << >>
    /\ now = 8 * 60
    /\ nextId = Len(SampleRecords) + 1
    /\ calls = [ id \in 1..(Len(SampleRecords) + 1) |-> 0 ]
    /\ last = FileNote("init", "idle", FALSE, << >>, << >>, << >>, file)

\* what the operation is about to save, from what it loaded
Computed(op, loaded) ==
  CASE op = "stock" -> stock_tweets(loaded, << TextOf(nextId) >>, nextId, now)
    [] op = "execute" ->
         execute_scheduled(loaded, now, TRUE, FALSE,
                           [ i \in 1..Len(loaded) |-> "ok" ]).items
    [] op = "clear_completed" -> clear_completed(loaded)
    [] op = "summary" -> loaded

\* the first statement of stock_tweets, execute_scheduled(dry_run=True),
\* clear_completed and get_schedule_summary: the load; then the in-memory work
BeginOp(op) ==
  LET ld == _load_scheduled(store)
  IN  /\ last.phase = "idle"
      /\ last' = IF ld.raised
                 THEN FileNote(op, "raised", TRUE, << >>, << >>, << >>, store)
                 ELSE FileNote(op, IF op = "summary" THEN "done" ELSE "computed",
                               FALSE, ld.data, Computed(op, ld.data), << >>, store)
      /\ nextId' = IF ~ ld.raised /\ op = "stock" THEN nextId + 1 ELSE nextId
      /\ UNCHANGED <<store, history, now, calls>>

\* _save_scheduled: open(scheduled_file, "w") creates or empties the file
SaveOpen ==
  /\ last.phase = "computed"
  /\ store' = [ exists |-> TRUE, text |-> << >> ]
  /\ last' = [ last EXCEPT !.phase = "writing", !.rest = dumps(last.data) ]
  /\ UNCHANGED <<history, now, nextId, calls>>

\* json.dump writes the text piece by piece
SaveWrite ==
  /\ last.phase = "writing"
  /\ last.rest # << >>
  /\ store' = [ store EXCEPT !.text = Append(store.text, Head(last.rest)) ]
  /\ last' = [ last EXCEPT !.rest = Tail(last.rest) ]
  /\ UNCHANGED <<history, now, nextId, calls>>

\* the with block closes the file
SaveClose ==
  /\ last.phase = "writing"
  /\ last.rest = << >>
  /\ last' = [ last EXCEPT !.phase = "done" ]
  /\ UNCHANGED <<store, history, now, nextId, calls>>

\* the process is interrupted or killed between two steps
Interrupt ==
  /\ last.phase \in {"computed", "writing"}
  /\ last' = [ last EXCEPT !.phase = "killed" ]
  /\ UNCHANGED <<store, history, now, nextId, calls>>

NextFile ==
  \/ \E op \in FileOps : BeginOp(op)
  \/ SaveOpen
  \/ SaveWrite
  \/ SaveClose
  \/ Interrupt

SpecFile == InitFile /\ [][NextFile]_vars

\* ------------------------------------------------- the daemon, by steps
\* SpecDaemon: run_daemon with a publishing client, statement by statement.
\* store and history are the two files; last is the daemon's frame: its
\* position pc, the locals of execute_scheduled (scheduled, the position k
\* of the for loop, the pass's now t, results), and counters of what it
\* has done (passes begun, saved, logged, sleeps, the ids called in the
\* pass, the moment the last pass ended).

PollDelay == 1     \* time.sleep(60): one minute

DaemonTexts == << TextOf(1), TextOf(2), TextOf(3) >>

\* a for loop that visits the list from its end
Order_Reversed(scheduled) == [ k \in 1..Len(scheduled) |-> Len(scheduled) + 1 - k ]

\* for item in scheduled: the positions in the order they are visited
Order(scheduled) == [ k \in 1..Len(scheduled) |-> k ]

\* a loop body that goes back to execute_scheduled without sleeping
AfterHistory_NoSleep == "start"

\* where the daemon is after execute_scheduled has returned
AfterHistory == "sleep"

InitDaemon ==
  \E n \in 1..Len(DaemonTexts), t \in {7 * 60, 8 * 60 - 1, 8 * 60}, dry_run \in BOOLEAN :
    /\ store = schedule_tweets(<< >>, SubSeq(DaemonTexts, 1, n), 1, 0)
    /\ history = << >>
    /\ now = t
    /\ nextId = n + 1
    /\ calls = [ id \in 1..Len(DaemonTexts) |-> 0 ]
    /\ last = [ op |-> "daemon", pc |-> "start", dry_run |-> dry_run,
                scheduled |-> << >>, k |-> 1, t |-> t, results |-> << >>,
                called |-> << >>, begun |-> 0, saved |-> 0, logged |-> 0,
                slept |-> 0, ended |-> t, at |-> "start" ]

\* the item the for loop is at
AtItem == last.scheduled[Order(last.scheduled)[last.k]]

InLoop == last.pc = "loop" /\ last.k <= Len(last.scheduled)

ItemDue == IsCandidate(AtItem) /\ TimeHasCome(AtItem, last.t)

\* execute_scheduled begins: scheduled = self._load_scheduled(); now; results
PassLoad ==
  /\ last.pc = "start"
  /\ last.begun < MaxPasses
  /\ last' = [ last EXCEPT !.pc = "loop", !.scheduled = store, !.k = 1,
                           !.t = now, !.results = << >>, !.called = << >>,
                           !.begun = @ + 1 ]
  /\ UNCHANGED <<store, history, now, nextId, calls>>

\* continue, or a scheduled_time that has not come
LoopSkip ==
  /\ InLoop
  /\ ~ ItemDue
  /\ last' = [ last EXCEPT !.k = @ + 1 ]
  /\ UNCHANGED <<store, history, now, nextId, calls>>

LoopDryRun ==
  /\ InLoop
  /\ ItemDue
  /\ last.dry_run
  /\ last' = [ last EXCEPT
                 !.scheduled[Order(last.scheduled)[last.k]] = DryRunItem(AtItem),
                 !.results = Append(@, DryResult(AtItem.text)),
                 !.k = @ + 1 ]
  /\ UNCHANGED <<store, history, now, nextId, calls>>

\* self.api.post_tweet(item["text"]) is entered: the request goes out
CallIssue ==
  /\ InLoop
  /\ ItemDue
  /\ ~ last.dry_run
  /\ calls[AtItem.id] < MaxCalls
  /\ calls' = [ calls EXCEPT ![AtItem.id] = @ + 1 ]
  /\ last' = [ last EXCEPT !.pc = "calling", !.called = Append(@, AtItem.id) ]
  /\ UNCHANGED <<store, history, now, nextId>>

\* post_tweet returns; the item and results are updated in memory
CallReturn(outcome) ==
  LET result == post_tweet(AtItem.text, outcome,
                           TweetIdFor(AtItem.id, calls[AtItem.id]))
  IN  /\ last.pc = "calling"
      /\ last' = [ last EXCEPT
                     !.scheduled[Order(last.scheduled)[last.k]] =
                        ApplyResult(AtItem, result, last.t),
                     !.results = Append(@, ApiResult(AtItem.text, result)),
                     !.k = @ + 1,
                     !.pc = "loop" ]
      /\ UNCHANGED <<store, history, now, nextId, calls>>

\* self._save_scheduled(scheduled)
PassSave ==
  /\ last.pc = "loop"
  /\ last.k > Len(last.scheduled)
  /\ store' = last.scheduled
  /\ last' = [ last EXCEPT !.pc = "saved", !.saved = @ + 1 ]
  /\ UNCHANGED <<history, now, nextId, calls>>

\* self._update_history(results); execute_scheduled returns
PassHistory ==
  /\ last.pc = "saved"
  /\ history' = _update_history(history, last.results, now)
  /\ last' = [ last EXCEPT !.pc = AfterHistory, !.logged = @ + 1, !.ended = now ]
  /\ UNCHANGED <<store, now, nextId, calls>>

\* time.sleep(60)
Sleep ==
  /\ last.pc = "sleep"
  /\ now' = now + PollDelay
  /\ last' = [ last EXCEPT !.pc = "start", !.slept = @ + 1 ]
  /\ UNCHANGED <<store, history, nextId, calls>>

\* KeyboardInterrupt reaches the main thread wherever it is; run_daemon
\* catches it outside the while loop, logs and returns
KeyboardInterrupt ==
  /\ last.pc \in {"start", "loop", "calling", "saved", "sleep"}
  /\ last' = [ last EXCEPT !.pc = "stopped", !.at = last.pc ]
  /\ UNCHANGED <<store, history, now, nextId, calls>>

NextDaemon ==
  \/ PassLoad
  \/ LoopSkip
  \/ LoopDryRun
  \/ CallIssue
  \/ \E outcome \in Outcomes : CallReturn(outcome)
  \/ PassSave
  \/ PassHistory
  \/ Sleep
  \/ KeyboardInterrupt

SpecDaemon == InitDaemon /\ [][NextDaemon]_vars

\* the daemon that keeps running: no interrupt arrives, every statement is
\* eventually executed and every publish call eventually returns
NextRunning ==
  \/ PassLoad
  \/ LoopSkip
  \/ LoopDryRun
  \/ CallIssue
  \/ \E outcome \in Outcomes : CallReturn(outcome)
  \/ PassSave
  \/ PassHistory
  \/ Sleep

SpecRunning == InitDaemon /\ [][NextRunning]_vars /\ WF_vars(NextRunning)

\* ------------------------------------------------------------ the summary
\* SpecSummary: get_schedule_summary on a store as the operations leave it:
\* up to UpcomingCount + 1 records scheduled together at one of the moments,
\* each since taken to some status, and possibly one record stocked after
\* them that has no scheduled_time.

UpcomingCount == 3     \* pending[:3]

\* the first n elements of a list, s[:n]
Take(s, n) == SubSeq(s, 1, Min(n, Len(s)))

CountStatus(scheduled, st) ==
  Cardinality({ i \in 1..Len(scheduled) : scheduled[i].status = st })

\* a summary that lists the pending records that have a time, soonest first
get_schedule_summary_Sorted(scheduled) ==
  LET P == { i \in 1..Len(scheduled) :
               /\ scheduled[i].status = "pending"
               /\ scheduled[i].scheduled_time # AbsentTime }
      Before(j, i) ==
        \/ fromisoformat(scheduled[j].scheduled_time)
             < fromisoformat(scheduled[i].scheduled_time)
        \/ /\ scheduled[j].scheduled_time = scheduled[i].scheduled_time
           /\ j < i
      Nth(r) == CHOOSE i \in P : Cardinality({ j \in P : Before(j, i) }) = r - 1
  IN  [ pending |-> CountStatus(scheduled, "pending"),
        posted |-> CountStatus(scheduled, "posted"),
        failed |-> CountStatus(scheduled, "failed"),
        total |-> Len(scheduled),
        upcoming |-> [ r \in 1..Min(UpcomingCount, Cardinality(P)) |->
                         [ id |-> scheduled[Nth(r)].id,
                           t |-> scheduled[Nth(r)].scheduled_time,
                           text |-> scheduled[Nth(r)].text ] ] ]

\* get_schedule_summary: the numbers of pending, posted and failed records,
\* the length of the list, and the first three pending records in store
\* order, each with its scheduled_time (or none) and text
get_schedule_summary(scheduled) ==
  LET pending == SelectStatus(scheduled, IsPending)
  IN  [ pending |-> Len(pending),
        posted |-> CountStatus(scheduled, "posted"),
        failed |-> CountStatus(scheduled, "failed"),
        total |-> Len(scheduled),
        upcoming |-> [ r \in 1..Len(Take(pending, UpcomingCount)) |->
                         [ id |-> pending[r].id,
                           t |-> pending[r].scheduled_time,
                           text |-> pending[r].text ] ] ]

\* the record as an execute pass leaves it with this status
TakenTo(item, st, t) ==
  CASE st = "pending" -> item
    [] st = "dry_run" -> DryRunItem(item)
    [] st = "no_api" -> NoApiItem(item)
    [] st = "posted" ->
         ApplyResult(item, post_tweet(item.text, "ok", TweetIdFor(item.id, 1)), t)
    [] st = "failed" ->
         ApplyResult(item, post_tweet(item.text, "err", TweetIdFor(item.id, 1)), t)

InitSummary ==
  \E n \in 0..(UpcomingCount + 1), t \in AssignMoments, late \in BOOLEAN :
    \E st \in [ 1..n -> Terminal \cup {"pending"} ] :
      LET assigned == schedule_tweets(<< >>, [ i \in 1..n |-> TextOf(i) ], 1, t)
          passed == [ i \in 1..n |-> TakenTo(assigned[i], st[i], t + MinutesPerDay) ]
      IN  /\ store = IF late
                     THEN stock_tweets(passed, << TextOf(n + 1) >>, n + 1, t + MinutesPerDay)
                     ELSE passed
          /\ history = << >>
          /\ now = t + MinutesPerDay
          /\ nextId = n + 1 + (IF late THEN 1 ELSE 0)
          /\ calls = [ id \in 1..(UpcomingCount + 2) |-> 0 ]
          /\ last = Note("init", << >>, FALSE, FALSE, FALSE, << >>, {})

\* main --status: print(scheduler.get_schedule_summary())
Summarize ==
  /\ last.op = "init"
  /\ last' = [ Note("summary", << >>, FALSE, FALSE, FALSE, << >>, {})
                EXCEPT !.returned = get_schedule_summary(store) ]
  /\ UNCHANGED <<store, history, now, nextId, calls>>

NextSummary == Summarize

SpecSummary == InitSummary /\ [][NextSummary]_vars

\* ------------------------------------------- two processes on one store
\* SpecRace: one process runs stock_tweets while another runs
\* execute_scheduled with a client, on the same scheduled.json. last holds
\* the two frames: each process's position and its in-memory list.

InitRace ==
  \E n \in 1..2, t \in {7 * 60 - 1, 7 * 60, 8 * 60} :
    /\ store = schedule_tweets(<< >>, SubSeq(DaemonTexts, 1, n), 1, 0)
    /\ history = << >>
    /\ now = t
    /\ nextId = n + 1
    /\ calls = [ id \in 1..Len(DaemonTexts) |-> 0 ]
    /\ last = [ op |-> "race",
                stock |-> [ pc |-> "start", existing |-> << >> ],
                exec |-> [ pc |-> "start", scheduled |-> << >>, results |-> << >> ] ]

\* stock_tweets: existing = self._load_scheduled()
RaceStockLoad ==
  /\ last.stock.pc = "start"
  /\ last' = [ last EXCEPT !.stock = [ pc |-> "loaded", existing |-> store ] ]
  /\ UNCHANGED <<store, history, now, nextId, calls>>

\* stock_tweets: the appends and self._save_scheduled(existing)
RaceStockSave ==
  /\ last.stock.pc = "loaded"
  /\ store' = stock_tweets(last.stock.existing, << TextOf(nextId) >>, nextId, now)
  /\ nextId' = nextId + 1
  /\ last' = [ last EXCEPT !.stock.pc = "done" ]
  /\ UNCHANGED <<history, now, calls>>

\* execute_scheduled: scheduled = self._load_scheduled()
RaceExecLoad ==
  /\ last.exec.pc = "start"
  /\ last' = [ last EXCEPT !.exec.pc = "loaded", !.exec.scheduled = store ]
  /\ UNCHANGED <<store, history, now, nextId, calls>>

\* execute_scheduled: the for loop with its publish calls, in memory
RaceExecLoop(oc) ==
  LET pass == execute_scheduled(last.exec.scheduled, now, FALSE, TRUE, oc)
      submitted == { r.id : r \in Range(pass.called) }
  IN  /\ last.exec.pc = "loaded"
      /\ calls' = [ id \in DOMAIN calls |->
                      IF id \in submitted THEN calls[id] + 1 ELSE calls[id] ]
      /\ last' = [ last EXCEPT !.exec.pc = "ran",
                               !.exec.scheduled = pass.items,
                               !.exec.results = pass.results ]
      /\ UNCHANGED <<store, history, now, nextId>>

\* execute_scheduled: self._save_scheduled(scheduled)
RaceExecSave ==
  /\ last.exec.pc = "ran"
  /\ store' = last.exec.scheduled
  /\ last' = [ last EXCEPT !.exec.pc = "saved" ]
  /\ UNCHANGED <<history, now, nextId, calls>>

\* execute_scheduled: self._update_history(results)
RaceExecHistory ==
  /\ last.exec.pc = "saved"
  /\ history' = _update_history(history, last.exec.results, now)
  /\ last' = [ last EXCEPT !.exec.pc = "done" ]
  /\ UNCHANGED <<store, now, nextId, calls>>

NextRace ==
  \/ RaceStockLoad
  \/ RaceStockSave
  \/ RaceExecLoad
  \/ \E oc \in [ 1..Len(last.exec.scheduled) -> Outcomes ] : RaceExecLoop(oc)
  \/ RaceExecSave
  \/ RaceExecHistory

SpecRace == InitRace /\ [][NextRace]_vars

\* ------------------------------------------------------ the reply handler
\* SpecReply: ReplyHandler.run, run after run, while mentions arrive. Here
\* store is reply_state.json ([last_mention_id], PyNone before the first
\* save), the mentions are numbered 1, 2, ... in the order they were
\* written (nextId is the next one), calls counts the replies posted to
\* each mention, and last notes what the last run fetched and did.

MaxResults == 10       \* get_mentions(max_results=10)

Reverse(s) == [ i \in 1..Len(s) |-> s[Len(s) + 1 - i] ]

\* the ids from hi down to lo
Downto(hi, lo) == [ i \in 1..(IF hi >= lo THEN hi - lo + 1 ELSE 0) |-> hi + 1 - i ]

\* get_mentions(since_id): the newest max_results mentions after since_id
\* (all of them for None), newest first
get_mentions(since_id, newest) ==
  LET all == Downto(newest, IF since_id = PyNone THEN 1 ELSE since_id + 1)
  IN  SubSeq(all, 1, Min(MaxResults, Len(all)))

\* a loop that takes the mentions in the order they were fetched
ProcessingOrder_AsFetched(mentions) == mentions

\* for mention in reversed(mentions)
ProcessingOrder(mentions) == Reverse(mentions)

\* the loop of run over the mentions in order: a processed mention moves the
\* cursor and is replied to unless dry_run; a failed one is only logged
RECURSIVE ProcessMentions(_, _, _, _, _)
ProcessMentions(order, k, acc, dry_run, oc) ==
  IF k > Len(order) THEN acc
  ELSE LET id == order[k]
       IN  IF oc[id] = "ok"
           THEN ProcessMentions(order, k + 1,
                  [ acc EXCEPT !.cursor = id,
                               !.done = @ \cup {id},
                               !.replied = IF dry_run THEN @ ELSE @ \cup {id} ],
                  dry_run, oc)
           ELSE ProcessMentions(order, k + 1,
                  [ acc EXCEPT !.failed = @ \cup {id} ], dry_run, oc)

run(state, newest, dry_run, oc) ==
  ProcessMentions(ProcessingOrder(get_mentions(state.last_mention_id, newest)), 1,
                  [ cursor |-> state.last_mention_id, done |-> {},
                    replied |-> {}, failed |-> {} ],
                  dry_run, oc)

InitReply ==
  /\ store = [ last_mention_id |-> PyNone ]
  /\ history = << >>
  /\ now = StartClock
  /\ nextId = 1
  /\ calls = [ id \in 1..MaxMentions |-> 0 ]
  /\ last = [ op |-> "init", dry_run |-> FALSE, fetched |-> << >>,
              done |-> {}, replied |-> {}, failed |-> {} ]

\* somebody mentions the account
MentionArrives ==
  /\ nextId <= MaxMentions
  /\ nextId' = nextId + 1
  /\ last' = [ last EXCEPT !.op = "mention" ]
  /\ UNCHANGED <<store, history, now, calls>>

\* ReplyHandler.run(dry_run); oc: whether generate_reply and post_tweet
\* succeed for each mention
ReplyRun(dry_run, oc) ==
  LET fetched == get_mentions(store.last_mention_id, nextId - 1)
      pass == run(store, nextId - 1, dry_run, oc)
  IN  /\ \A id \in pass.replied : calls[id] < MaxCalls
      /\ calls' = [ id \in DOMAIN calls |->
                      IF id \in pass.replied THEN calls[id] + 1 ELSE calls[id] ]
      /\ store' = [ last_mention_id |-> pass.cursor ]
      /\ last' = [ op |-> "reply_run", dry_run |-> dry_run, fetched |-> fetched,
                   done |-> pass.done, replied |-> pass.replied,
                   failed |-> pass.failed ]
      /\ UNCHANGED <<history, now, nextId>>

NextReply ==
  \/ MentionArrives
  \/ \E dry_run \in BOOLEAN, oc \in [ 1..MaxMentions -> Outcomes ] :
       ReplyRun(dry_run, oc)

SpecReply == InitReply /\ [][NextReply]_vars

\* ------------------------------------------------------------ SpecQuote
\* EngagementHandler.run_quote_retweet over engagement_state.json. store is
\* the state file, history the quotes the platform has taken (tweet id and
\* moment), nextId the id the next new tweet gets, calls the number of
\* quote_tweet calls issued, and last notes what the last run found and did.

MaxQuotes == 2         \* quote_tweet calls in one behaviour

KeepQuoted == 50       \* quoted_ids[-50:]

QuoteInterval == 3 * 60  \* timedelta(hours=3)

\* last moment the clock reaches: two intervals after the start
QuoteClock == StartClock + 2 * QuoteInterval

OwnAuthor == "me"      \* self.api.user_id

OtherAuthor == "them"

\* the outcome of generate_quote_comment and quote_tweet: a successful
\* result, a result without success, or an exception
QuoteOutcomes == {"ok", "err", "raise"}

\* a list that is never shortened
KeepLast_All(ids) == ids

\* quoted_ids[-50:]
KeepLast(ids) ==
  IF Len(ids) <= KeepQuoted THEN ids
  ELSE SubSeq(ids, Len(ids) - KeepQuoted + 1, Len(ids))

\* _load_state of a file no run has written yet
EmptyState == [ quoted_tweet_ids |-> << >>, last_quote_time |-> NullTime ]

\* if last_qt_time: ... datetime.now() - last_dt < timedelta(hours=3)
RateLimited(state, t) ==
  /\ state.last_quote_time # NullTime
  /\ t - fromisoformat(state.last_quote_time) < QuoteInterval

Eligible(state, t) ==
  /\ t.id \notin Range(state.quoted_tweet_ids)
  /\ t.author_id # OwnAuthor

\* the loop over tweets: the first one not quoted before and not the
\* account's own, 0 when there is none
TargetIndex(state, tweets) ==
  IF \E k \in 1..Len(tweets) : Eligible(state, tweets[k])
  THEN CHOOSE k \in 1..Len(tweets) :
         /\ Eligible(state, tweets[k])
         /\ \A j \in 1..(k - 1) : ~Eligible(state, tweets[j])
  ELSE 0

\* the state written after a successful quote of the tweet id at moment t
Quoted(state, id, t) ==
  [ quoted_tweet_ids |-> KeepLast(Append(state.quoted_tweet_ids, id)),
    last_quote_time |-> isoformat(t) ]

\* the tweets a search can return: a new one, the one quoted last, the one
\* quoted first (which the list may have dropped), by the account or by
\* others
SearchTweets ==
  LET ids == {nextId, 1} \cup
             (IF store.quoted_tweet_ids = << >> THEN {}
              ELSE { store.quoted_tweet_ids[Len(store.quoted_tweet_ids)] })
  IN  [ id : ids, author_id : {OwnAuthor, OtherAuthor} ]

\* what search_tweets returns: nothing, one tweet, or a tweet followed by a
\* new one
SearchResults ==
  {<< >>} \cup { <<a>> : a \in SearchTweets }
          \cup { <<a, b>> : a \in SearchTweets,
                           b \in { c \in SearchTweets : c.id = nextId } }

InitQuote ==
  \E n \in {0, KeepQuoted},
     t \in {StartClock - QuoteInterval, StartClock - 60} :
    /\ store = IF n = 0 THEN EmptyState
               ELSE [ quoted_tweet_ids |-> [ i \in 1..n |-> i ],
                      last_quote_time |-> isoformat(t) ]
    /\ history = IF n = 0 THEN << >> ELSE << [ id |-> n, at |-> t ] >>
    /\ now = StartClock
    /\ nextId = n + 1
    /\ calls = 0
    /\ last = [ op |-> "init", dry_run |-> FALSE, tweets |-> << >>,
                target |-> 0, oc |-> "ok", posted |-> FALSE ]

QuoteTick ==
  /\ now + 60 <= QuoteClock
  /\ now' = now + 60
  /\ last' = [ last EXCEPT !.op = "tick" ]
  /\ UNCHANGED <<store, history, nextId, calls>>

\* run_quote_retweet(dry_run) returns before a comment is generated: a quote
\* was posted less than three hours ago, the search finds nothing, or
\* nothing found may be quoted
QuoteSkip(dry_run, tweets) ==
  /\ \/ RateLimited(store, now)
     \/ TargetIndex(store, tweets) = 0
  /\ last' = [ op |-> "quote_run", dry_run |-> dry_run,
               tweets |-> IF RateLimited(store, now) THEN << >> ELSE tweets,
               target |-> 0, oc |-> "ok", posted |-> FALSE ]
  /\ UNCHANGED <<store, history, now, nextId, calls>>

\* run_quote_retweet(dry_run) with a target; oc is what the collaborators
\* do: "raise" is an exception out of generate_quote_comment or quote_tweet,
\* "err" a quote_tweet result without success
QuoteRun(dry_run, tweets, oc) ==
  LET k == TargetIndex(store, tweets)
      called == oc # "raise" /\ ~dry_run
      posted == called /\ oc = "ok"
  IN  /\ ~RateLimited(store, now)
      /\ k # 0
      /\ called => calls < MaxQuotes
      /\ calls' = IF called THEN calls + 1 ELSE calls
      /\ history' = IF posted
                    THEN Append(history, [ id |-> tweets[k].id, at |-> now ])
                    ELSE history
      /\ store' = IF posted THEN Quoted(store, tweets[k].id, now) ELSE store
      /\ nextId' = IF posted /\ tweets[k].id = nextId THEN nextId + 1 ELSE nextId
      /\ last' = [ op |-> "quote_run", dry_run |-> dry_run, tweets |-> tweets,
                   target |-> k, oc |-> oc, posted |-> posted ]
      /\ UNCHANGED now

NextQuote ==
  \/ QuoteTick
  \/ \E dry_run \in BOOLEAN, tweets \in SearchResults : QuoteSkip(dry_run, tweets)
  \/ \E dry_run \in BOOLEAN, tweets \in SearchResults, oc \in QuoteOutcomes :
       QuoteRun(dry_run, tweets, oc)

SpecQuote == InitQuote /\ [][NextQuote]_vars

\* ---------------------------------------------------------- SpecContent
\* ContentEngine.generate_tweet and validate_tweet. A text is its length and
\* the things validate_tweet looks for in it (marks); a response of the
\* language model is a text inside wrap quote characters. store is the frame
\* of the generate_tweet call, history the issues of the attempts that
\* failed validation, calls the number of messages.create calls, last the
\* text validated last and what the call gave back.

MaxRetries == 3        \* largest max_retries of a call (3 is the default)

MaxLength == 150       \* longest text handed to validate_tweet

LengthLimit == 140     \* if length > 140

LengthFloor == 60      \* if length < 60

Marks == {"hashtag", "banned", "url", "mention"}

NoText == [ length |-> -1, marks |-> {} ]

\* _clean_output: the enclosing quote characters are stripped
_clean_output(response) ==
  [ length |-> response.length - response.wrap, marks |-> response.marks ]

\* validate_tweet: (is_valid, issue); the length is checked first, then the
\* hashtag, the banned expressions, the URL and the mention
validate_tweet(text) ==
  IF text.length > LengthLimit THEN << FALSE, "over_limit" >>
  ELSE IF text.length < LengthFloor THEN << FALSE, "too_short" >>
  ELSE IF "hashtag" \in text.marks THEN << FALSE, "hashtag" >>
  ELSE IF "banned" \in text.marks THEN << FALSE, "banned" >>
  ELSE IF "url" \in text.marks THEN << FALSE, "url" >>
  ELSE IF "mention" \in text.marks THEN << FALSE, "mention" >>
  ELSE << TRUE, "" >>

\* a loop that returns whatever the first attempt produced
AttemptPasses_Always(text) == TRUE

\* is_valid, issue = self.validate_tweet(tweet_text); if is_valid: return
AttemptPasses(text) == validate_tweet(text)[1]

\* what messages.create answers: a text around both length checks, bare or
\* in quotes, clean or with a hashtag
Responses ==
  [ length : {LengthFloor - 1, LengthFloor, LengthFloor + 1,
              LengthLimit, LengthLimit + 1, LengthLimit + 2},
    wrap : {0, 2},
    marks : {{}, {"hashtag"}} ]

InitContent ==
  /\ store = [ pc |-> "idle", max_retries |-> 0, attempt |-> 0 ]
  /\ history = << >>
  /\ now = StartClock
  /\ nextId = 1
  /\ calls = 0
  /\ last = [ op |-> "init", text |-> NoText, returned |-> NoText,
              error |-> "" ]

\* generate_tweet(max_retries=n) is called; range(0) ends the loop at once
GenerateTweet(n) ==
  /\ store.pc = "idle"
  /\ store' = [ pc |-> IF n = 0 THEN "raised" ELSE "loop",
                max_retries |-> n, attempt |-> 0 ]
  /\ last' = [ op |-> "generate_tweet", text |-> NoText, returned |-> NoText,
               error |-> IF n = 0 THEN "ValueError" ELSE "" ]
  /\ UNCHANGED <<history, now, nextId, calls>>

\* one pass of the loop whose messages.create call answers with response
Attempt(response) ==
  LET text == _clean_output(response)
      done == store.attempt + 1 = store.max_retries
  IN  /\ store.pc = "loop"
      /\ calls' = calls + 1
      /\ IF AttemptPasses(text)
         THEN /\ store' = [ store EXCEPT !.pc = "returned" ]
              /\ history' = history
              /\ last' = [ op |-> "attempt", text |-> text, returned |-> text,
                           error |-> "" ]
         ELSE /\ store' = [ store EXCEPT !.attempt = @ + 1,
                                         !.pc = IF done THEN "raised" ELSE "loop" ]
              /\ history' = Append(history, validate_tweet(text)[2])
              /\ last' = [ op |-> "attempt", text |-> text, returned |-> NoText,
                           error |-> IF done THEN "ValueError" ELSE "" ]
      /\ UNCHANGED <<now, nextId>>

\* one pass of the loop whose messages.create call raises APIError
AttemptApiError ==
  /\ store.pc = "loop"
  /\ calls' = calls + 1
  /\ store' = [ store EXCEPT !.pc = "raised" ]
  /\ last' = [ op |-> "attempt", text |-> NoText, returned |-> NoText,
               error |-> "APIError" ]
  /\ UNCHANGED <<history, now, nextId>>

NextContent ==
  \/ \E n \in 0..MaxRetries : GenerateTweet(n)
  \/ \E response \in Responses : Attempt(response)
  \/ AttemptApiError

SpecContent == InitContent /\ [][NextContent]_vars

\* --------------------------------------------------------- SpecValidate
\* validate_tweet applied to one text: store is the text, last the result.

ValidateTexts == [ length : 0..MaxLength, marks : SUBSET Marks ]

InitValidate ==
  /\ store \in ValidateTexts
  /\ history = << >>
  /\ now = StartClock
  /\ nextId = 1
  /\ calls = 0
  /\ last = [ op |-> "init", valid |-> FALSE, issue |-> "" ]

Validate ==
  /\ last.op = "init"
  /\ last' = [ op |-> "validate_tweet", valid |-> validate_tweet(store)[1],
               issue |-> validate_tweet(store)[2] ]
  /\ UNCHANGED <<store, history, now, nextId, calls>>

NextValidate == Validate

SpecValidate == InitValidate /\ [][NextValidate]_vars

\* ================================================================ claims
\* a record that execute_scheduled has to attempt at moment t
IsDueAt(r, t) ==
  /\ r.status = "pending"
  /\ r.scheduled_time # AbsentTime
  /\ fromisoformat(r.scheduled_time) <= t

ExecuteStep == last'.op = "execute"

PublishingStep == last'.op = "execute" /\ ~last'.dry_run /\ last'.api

CalledIds(note) == { c.id : c \in note.called }

\* C1: over any sequence of passes the publishing client is invoked at most
\* once for each record: no record's text is submitted to the platform a
\* second time.
C1_AtMostOnePublishCall ==
  \A id \in DOMAIN calls : calls[id] <= 1

\* C2: a failing publish of one due record does not abort the pass: every
\* other record due in the pass (here: every due record whose text the
\* client accepts) is still attempted in it and ends it posted or failed,
\* and a record whose publish was reported failed ends it as failed with a
\* non-empty error.
C2_FailureDoesNotAbortPass ==
  [][ PublishingStep =>
        /\ Len(store') = Len(store)
        /\ \A i \in 1..Len(store) :
             (IsDueAt(store[i], now) /\ store[i].text.len <= TweetLimit) =>
               /\ store[i].id \in CalledIds(last')
               /\ store'[i].status \in {"posted", "failed"}
               /\ store'[i].status = "failed" => store'[i].error # AbsentStr
    ]_vars

\* C3: terminal statuses are absorbing: a record whose persisted status is
\* posted, failed, dry_run or no_api keeps that status in every step, as
\* long as it is in the store.
C3_TerminalAbsorbing ==
  [][ \A i \in 1..Len(store) : \A j \in 1..Len(store') :
        (store[i].status \in Terminal /\ store'[j].id = store[i].id)
          => store'[j].status = store[i].status
    ]_vars

\* a pass with a client went over a store that held an already failed
\* record, which it did not hand to the client
C3_Witness ==
  /\ last.op = "execute" /\ ~last.dry_run /\ last.api /\ ~last.raised
  /\ \E i \in 1..Len(store) :
       /\ store[i].status = "failed"
       /\ store[i].id \notin CalledIds(last)
       /\ calls[store[i].id] = 1

\* C4: with dry_run off and a client configured, each due record (here:
\* each whose text the client accepts) gets exactly one publish call in
\* the pass; a reported success makes it posted with tweet_id and posted_at
\* stored, a reported failure makes it failed with the error stored.
C4_OneCallAndOutcomeStored ==
  [][ PublishingStep =>
        /\ Len(store') = Len(store)
        /\ \A i \in 1..Len(store) :
             (IsDueAt(store[i], now) /\ store[i].text.len <= TweetLimit) =>
               /\ calls'[store[i].id] = calls[store[i].id] + 1
               /\ \E c \in last'.called :
                    /\ c.id = store[i].id
                    /\ c.report = "ok" =>
                         /\ store'[i].status = "posted"
                         /\ store'[i].tweet_id # AbsentId
                         /\ store'[i].posted_at = isoformat(now)
                    /\ c.report = "err" =>
                         /\ store'[i].status = "failed"
                         /\ store'[i].error # AbsentStr
                    /\ c.report \in {"ok", "err"}
    ]_vars

\* C5: a pass with dry_run set makes every due record dry_run and makes no
\* publish call, with or without a client.
C5_DryRunNeverPublishes ==
  [][ (ExecuteStep /\ last'.dry_run) =>
        /\ calls' = calls
        /\ last'.called = {}
        /\ Len(store') = Len(store)
        /\ \A i \in 1..Len(store) :
             IsDueAt(store[i], now) => store'[i].status = "dry_run"
    ]_vars

\* a dry run with a client configured has just made a record dry_run
C5_Witness ==
  /\ last.op = "execute" /\ last.dry_run /\ last.api
  /\ Len(last.results) >= 1
  /\ \E i \in 1..Len(store) :
       store[i].status = "dry_run" /\ calls[store[i].id] = 0

LeftPending == { i \in 1..Len(store) : store[i].status = "pending" /\ store'[i].status # "pending" }

\* C7: every pass appends one history entry, and returns one result, for
\* each record it moved out of pending, dry_run and no_api records included.
C7_OneHistoryEntryPerTransition ==
  [][ (ExecuteStep /\ ~last'.raised) =>
        /\ Len(store') = Len(store)
        /\ Len(history') = Len(history) + Cardinality(LeftPending)
        /\ Len(last'.results) = Cardinality(LeftPending)
    ]_vars

\* C8: a pass changes only due records: the store keeps its length and
\* order and every record that is not due keeps all its fields.
C8_OnlyDueRecordsChange ==
  [][ ExecuteStep =>
        /\ Len(store') = Len(store)
        /\ \A i \in 1..Len(store) :
             /\ store'[i].id = store[i].id
             /\ ~IsDueAt(store[i], now) => store'[i] = store[i]
    ]_vars

\* a pass has just posted one record and left a pending record whose time
\* is still ahead
C8_Witness ==
  /\ last.op = "execute" /\ ~last.raised
  /\ \E i, j \in 1..Len(store) :
       /\ store[i].status = "posted" /\ store[i].posted_at = isoformat(now)
       /\ store[i].id \in CalledIds(last)
       /\ store[j].status = "pending"
       /\ store[j].scheduled_time # AbsentTime
       /\ fromisoformat(store[j].scheduled_time) > now

\* C9: stock with n texts appends n records at the end, in input order,
\* each pending without scheduled_time, and leaves the records that were
\* in the store unchanged and in place.
C9_StockAppendsPending ==
  [][ last'.op = "stock" =>
        LET n == Len(last'.texts)
        IN  /\ Len(store') = Len(store) + n
            /\ \A i \in 1..Len(store) : store'[i] = store[i]
            /\ \A k \in 1..n :
                 /\ store'[Len(store) + k].text = last'.texts[k]
                 /\ store'[Len(store) + k].status = "pending"
                 /\ store'[Len(store) + k].scheduled_time = AbsentTime
    ]_vars

\* a text has just been stocked behind a record that was executed before
C9_Witness ==
  /\ last.op = "stock" /\ Len(last.texts) = 1
  /\ Len(store) = 2
  /\ store[1].status = "posted"
  /\ store[2].status = "pending" /\ store[2].scheduled_time = AbsentTime

\* C10: assign is idempotent for assigned records: a second assign-and-
\* persist without new records, at any later moment, leaves every
\* scheduled_time that was set unchanged.
C10_AssignIdempotent ==
  [][ (last'.op = "schedule" /\ last'.texts = << >>) =>
        /\ Len(store') = Len(store)
        /\ \A i \in 1..Len(store) :
             store[i].scheduled_time # AbsentTime =>
               store'[i].scheduled_time = store[i].scheduled_time
    ]_vars

\* C15: force_immediate (the --post-now override) rewrites the
\* scheduled_time of the selected records only, the ones it has just
\* stocked: they get a time before now, and every other record keeps all
\* its fields, so no other pending record is made due.
C15_ForceOnlySelected ==
  [][ last'.op = "post_now" =>
        /\ Len(store') = Len(store) + Len(last'.texts)
        /\ \A i \in 1..Len(store) : store'[i] = store[i]
        /\ \A k \in 1..Len(last'.texts) :
             /\ store'[Len(store) + k].scheduled_time # AbsentTime
             /\ fromisoformat(store'[Len(store) + k].scheduled_time) < now
    ]_vars

\* C17: scheduled_time is revised only while the record is pending: a
\* record that is not pending after a step has the scheduled_time it had
\* before the step.
C17_TimeFixedOncePending ==
  [][ \A i \in 1..Len(store) : \A j \in 1..Len(store') :
        (store'[j].id = store[i].id /\ store'[j].status # "pending")
          => store'[j].scheduled_time = store[i].scheduled_time
    ]_vars

\* assign-and-persist has just run over an executed record and a pending
\* record of the same text, and only the pending one holds the new time
C17_Witness ==
  /\ last.op = "schedule"
  /\ \E i, j \in 1..Len(store) :
       /\ store[i].status \in Terminal
       /\ store[j].status = "pending"
       /\ store[j].text = store[i].text
       /\ store[j].scheduled_time # AbsentTime
       /\ store[j].scheduled_time # store[i].scheduled_time

\* C18: in every persisted store a record that is not pending has a
\* scheduled_time.
C18_NonPendingHasTime ==
  \A i \in 1..Len(store) :
    store[i].status # "pending" => store[i].scheduled_time # AbsentTime

\* a pass has executed one record and passed over a pending record that
\* has no scheduled_time
C18_Witness ==
  /\ last.op = "execute" /\ ~last.raised /\ Len(last.results) >= 1
  /\ \E i, j \in 1..Len(store) :
       /\ store[i].status \in Terminal
       /\ store[j].status = "pending"
       /\ store[j].scheduled_time = AbsentTime

\* the number of pending records among the first i records of s
PendingUpTo(s, i) ==
  Cardinality({ j \in 1..i : s[j].status = "pending" })

\* C19: clear_completed removes every record that is not pending and keeps
\* every pending record, with all its fields and in the same relative order.
C19_ClearKeepsPending ==
  [][ last'.op = "clear_completed" =>
        /\ Len(store') = PendingUpTo(store, Len(store))
        /\ \A k \in 1..Len(store') : store'[k].status = "pending"
        /\ \A i \in 1..Len(store) :
             store[i].status = "pending" => store'[PendingUpTo(store, i)] = store[i]
    ]_vars

\* clear_completed has removed the executed first record and kept the
\* pending second one
C19_Witness ==
  /\ last.op = "clear_completed" /\ ~last.again
  /\ Len(history) >= 1
  /\ Len(store) = 1
  /\ store[1].id = 2 /\ store[1].status = "pending"

\* C20: clear_completed is idempotent: a second run directly after a first
\* removes no record and leaves the store as the first run left it.
C20_ClearIdempotent ==
  [][ (last.op = "clear_completed" /\ last'.op = "clear_completed") =>
        /\ Len(store') = Len(store)
        /\ store' = store
    ]_vars

\* clear_completed has run directly after a clear_completed, on a store
\* from which executed records had been removed
C20_Witness ==
  /\ last.op = "clear_completed" /\ last.again
  /\ Len(history) >= 1
  /\ Len(store) < nextId - 1

\* ------------------------------------------------ store and history claims
\* C21: clear_completed returns to its caller the number of records it
\* removed, the store's length before minus its length after.
C21_ClearReturnsCount ==
  [][ last'.op = "clear_completed" =>
        last'.returned = Len(store) - Len(store') ]_vars

Ids(s) == { s[i].id : i \in 1..Len(s) }

\* C22: records leave the store only through clear_completed, and no
\* operation removes a pending record.
C22_PendingNeverRemoved ==
  [][ /\ \A i \in 1..Len(store) :
           store[i].status = "pending" => store[i].id \in Ids(store')
      /\ (Ids(store) \ Ids(store') # {}) => last'.op = "clear_completed" ]_vars

StoreKeepingStep == last'.op \in {"stock", "schedule", "post_now", "execute"}

\* C23: after stock, assign-and-persist, force and execute the records that
\* were in the store are still there in the same order, each with the text
\* it was created with.
C23_OrderAndTextStable ==
  [][ StoreKeepingStep =>
        /\ Len(store') >= Len(store)
        /\ \A i \in 1..Len(store) :
             /\ store'[i].id = store[i].id
             /\ store'[i].text = store[i].text
             /\ store'[i].created_at = store[i].created_at ]_vars

C23_Witness ==
  /\ last.op = "execute"
  /\ ~ last.raised
  /\ Len(store) = 2
  /\ store[1].id = 1
  /\ store[2].id = 2
  /\ store[1].text = store[2].text
  /\ store[1].status = "posted"
  /\ store[2].status = "pending"
  /\ store[2].scheduled_time # AbsentTime

\* C24: every history update keeps the existing entries unchanged and in
\* order as a prefix of the new log; the log never gets shorter.
C24_HistoryAppendOnly ==
  [][ /\ Len(history') >= Len(history)
      /\ SubSeq(history', 1, Len(history)) = history ]_vars

C24_Witness ==
  /\ last.op = "execute"
  /\ Len(last.results) >= 1
  /\ Len(history) >= 2
  /\ history[1].timestamp # history[Len(history)].timestamp

\* ------------------------------------------------ slot assignment claims
AssignStep == last'.op \in {"assign", "schedule"}

HasTime(r) == r.scheduled_time # AbsentTime

TimeOfDay(slot) == slot.time[1] * 60 + slot.time[2]

\* C11: one assign pass gives a scheduled_time to at most as many records
\* as the slot table has entries, and the pending records after the tenth
\* keep status pending with no scheduled_time and no period.
C11_AtMostTenAssigned ==
  [][ AssignStep =>
        /\ Cardinality({ i \in 1..Len(store') : HasTime(store'[i]) }) <= Len(PEAK_SLOTS)
        /\ \A i \in 1..Len(store') :
             i > Len(PEAK_SLOTS) =>
               /\ store'[i].status = "pending"
               /\ store'[i].scheduled_time = AbsentTime
               /\ store'[i].period = AbsentStr ]_vars

\* C12: assign_time_slots on a list of n <= 10 records gives every record
\* a scheduled_time and a period, and the record at index i receives the
\* time of day and the period of the i-th entry of the slot table.
C12_IthRecordIthSlot ==
  [][ (last'.op = "assign" /\ Len(store) <= Len(PEAK_SLOTS)) =>
        /\ Len(store') = Len(store)
        /\ \A i \in 1..Len(store') :
             /\ HasTime(store'[i])
             /\ store'[i].period # AbsentStr
             /\ << store'[i].scheduled_time[2], store'[i].scheduled_time[3] >>
                  = PEAK_SLOTS[i].time
             /\ store'[i].period = PEAK_SLOTS[i].period
             /\ store'[i].text = store[i].text ]_vars

C12_Witness ==
  /\ last.op = "assign"
  /\ Len(store) = Len(PEAK_SLOTS)
  /\ store[1].period = "morning"
  /\ store[5].scheduled_time[2] = 12
  /\ store[5].scheduled_time[3] = 30
  /\ store[10].period = "evening"
  /\ store[10].scheduled_time[2] = 23

\* C13: the moment assigned for a slot is the slot's time of day on the
\* reference's calendar day when that time of day is later than the
\* reference's wall-clock time, and on the following day when it is
\* earlier; 07:00 against day 0 08:00 gives day 1 07:00 and 09:00 against
\* it gives day 0 09:00; the result is later than the reference and at
\* most 24 hours after it.
C13_NextOccurrence ==
  [][ last'.op = "assign" =>
        \A i \in 1..Min(Len(store'), Len(PEAK_SLOTS)) :
          LET tod    == TimeOfDay(PEAK_SLOTS[i])
              day    == now \div MinutesPerDay
              wall   == now % MinutesPerDay
              result == fromisoformat(store'[i].scheduled_time)
          IN  /\ tod > wall => result = day * MinutesPerDay + tod
              /\ tod < wall => result = (day + 1) * MinutesPerDay + tod
              /\ result > now
              /\ result <= now + MinutesPerDay
              /\ (now = 8 * 60 /\ i = 1) => store'[i].scheduled_time = << 1, 7, 0 >>
              /\ (now = 8 * 60 /\ i = 3) => store'[i].scheduled_time = << 0, 9, 0 >> ]_vars

C13_Witness ==
  /\ last.op = "assign"
  /\ now = 8 * 60
  /\ Len(store) >= 3
  /\ store[1].scheduled_time = << 1, 7, 0 >>
  /\ store[3].scheduled_time = << 0, 9, 0 >>

\* C14: when the slot's time today equals the moment of assignment the
\* record is scheduled for the same time on the next day, and no record
\* is due at the instant it is assigned.
C14_TieGoesToNextDay ==
  [][ AssignStep =>
        \A i \in 1..Len(store') :
          HasTime(store'[i]) =>
            /\ ~ IsDueAt(store'[i], now)
            /\ (/\ last'.op = "assign"
                /\ i <= Len(PEAK_SLOTS)
                /\ TimeOfDay(PEAK_SLOTS[i]) = now % MinutesPerDay)
                 => fromisoformat(store'[i].scheduled_time) = now + MinutesPerDay ]_vars

C14_Witness ==
  /\ last.op = "assign"
  /\ now = 12 * 60 + 30
  /\ Len(store) >= 5
  /\ store[5].scheduled_time = << 1, 12, 30 >>
  /\ store[4].scheduled_time = << 1, 12, 0 >>
  /\ store[6].scheduled_time = << 0, 13, 0 >>


\* ------------------------------------------------------ end-to-end claim
FirstThree == 1..Cardinality(ScenarioTexts)

\* C16: after stock of 3 texts, assign, force of one record into the past
\* and execute_scheduled (dry_run off, publishing always succeeds), the 3
\* records hold distinct scheduled_time values taken from the first 3
\* slots, exactly one record, the forced one, is posted with a tweet_id,
\* and the other two are pending.
C16_EndToEnd ==
  last.op = "execute" =>
    /\ \A i \in FirstThree : HasTime(store[i])
    /\ { << store[i].scheduled_time[2], store[i].scheduled_time[3] >> : i \in FirstThree }
         = { PEAK_SLOTS[i].time : i \in FirstThree }
    /\ \E f \in FirstThree :
         /\ store[f].status = "posted"
         /\ store[f].tweet_id # AbsentId
         /\ fromisoformat(store[f].scheduled_time) < now
         /\ \A o \in FirstThree \ {f} : store[o].status = "pending"


\* ------------------------------------------------------- store file claims
\* C25: load on a missing file gives an empty sequence without error; load
\* on a file that exists and cannot be parsed fails the calling operation
\* and leaves the file as it was.
C25_LoadMissingOrBroken ==
  [][ (last.phase = "idle" /\ last'.phase # "idle") =>
        /\ ~ store.exists =>
             (~ last'.raised /\ last'.loaded = << >> /\ last'.phase # "raised")
        /\ (store.exists /\ ~ Parseable(store.text)) =>
             (last'.raised /\ last'.phase = "raised" /\ store' = store) ]_vars

C25_Witness ==
  /\ last.phase = "raised"
  /\ last.op = "stock"
  /\ store.exists
  /\ store.text = << GarbageToken >>
  /\ store = last.before

\* C26: during a save and after an interruption at any point of it the
\* file holds the complete previous collection or the complete new one
\* (stated for a save over a file that held a collection of records).
C26_SaveAtomic ==
  (/\ last.phase \in {"writing", "killed", "done"}
   /\ Len(last.loaded) >= 1) =>
    \/ store = last.before
    \/ store.exists /\ store.text = dumps(last.data)

\* C27: saving the collection returned by load and loading again gives the
\* same collection, record for record and field for field; so does every
\* collection an operation saves.
C27_RoundTrip ==
  [][ (last.phase = "writing" /\ last'.phase = "done") =>
        /\ _load_scheduled(store') = [ raised |-> FALSE, data |-> last.data ]
        /\ last.data = last.loaded =>
              _load_scheduled(store').data = _load_scheduled(last.before).data ]_vars

C27_Witness ==
  /\ last.phase = "done"
  /\ last.op = "execute"
  /\ last.data = last.loaded
  /\ Len(last.loaded) = 2
  /\ last.loaded[1].scheduled_time = AbsentTime
  /\ last.loaded[1].posted_at = NullTime
  /\ last.loaded[2].status = "posted"
  /\ last.loaded[2].posted_at # NullTime
  /\ _load_scheduled(store).data = last.loaded


\* ------------------------------------------------------------ daemon claims
\* the store record with this id
Stored(id) == store[CHOOSE j \in 1..Len(store) : store[j].id = id]

\* the ids of the records whose publish call has returned in the pass
Returned == SubSeq(last.called, 1, Len(last.results))

\* C28: when run_daemon has been interrupted, every record for which the
\* publishing client was called in the pass in flight (here: the call has
\* returned) has a terminal status in the store and an entry in the log.
C28_InterruptLetsPassFinish ==
  (last.pc = "stopped" /\ ~ last.dry_run) =>
    \A n \in 1..Len(Returned) :
      /\ Stored(Returned[n]).status \in Terminal
      /\ \E h \in 1..Len(history) : history[h].text = Stored(Returned[n]).text

PassBegins == last.pc = "start" /\ last'.pc = "loop"

\* C29: a pass begins only after the previous pass has saved the store and
\* appended the history and the poll delay has passed since; at most one
\* pass is under way.
C29_PassesSerial ==
  [][ /\ PassBegins =>
           /\ last.saved = last.begun
           /\ last.logged = last.begun
           /\ last.slept = last.begun
           /\ last.begun > 0 => now >= last.ended + PollDelay
      /\ last'.begun - last'.logged \in {0, 1}
      /\ last'.begun - last'.saved \in {0, 1} ]_vars

C29_Witness ==
  /\ last.begun = 2
  /\ last.pc = "calling"
  /\ Len(history) = 1
  /\ last.slept = 1
  /\ now = last.ended + PollDelay
  /\ store[1].status \in {"posted", "failed"}

CallIssued == last.pc = "loop" /\ last'.pc = "calling"

\* the position in the pass's list of the record the last call is for
IssuedAt(frame) ==
  CHOOSE j \in 1..Len(frame.scheduled) :
    frame.scheduled[j].id = frame.called[Len(frame.called)]

\* C30: within one pass a publish call is issued only when no other call is
\* outstanding and every due record at a lower store index has had its
\* call completed.
C30_CallsInStoreOrder ==
  [][ /\ last'.pc = "calling" => CallIssued
      /\ CallIssued =>
           /\ Len(last'.called) = Len(last.results) + 1
           /\ \A j \in 1..(IssuedAt(last') - 1) :
                ~ IsDueAt(last.scheduled[j], last.t) ]_vars

C30_Witness ==
  /\ last.pc = "calling"
  /\ last.called = << 1, 2 >>
  /\ Len(last.results) = 1
  /\ last.scheduled[1].status \in {"posted", "failed"}
  /\ last.scheduled[2].status = "pending"


\* ----------------------------------------------------------- summary claims
\* C31: the summary lists as upcoming the soonest UpcomingCount pending
\* records that have a scheduled_time, by scheduled_time ascending, ties in
\* store order.
C31_UpcomingSoonestFirst ==
  last.op = "summary" =>
    last.returned.upcoming = get_schedule_summary_Sorted(store).upcoming

\* C32: the counts the summary reports for the statuses sum to the total it
\* reports, and the summary changes nothing in the store.
C32_CountsCoverEveryRecord ==
  [][ last'.op = "summary" =>
        /\ store' = store
        /\ last'.returned.pending + last'.returned.posted + last'.returned.failed
             = last'.returned.total
        /\ last'.returned.total = Len(store) ]_vars


\* ------------------------------------------------ write-back by text claim
\* C33: after the driver's assign-and-persist no two pending records of the
\* store hold the same scheduled_time.
C33_OneRecordPerSlot ==
  [][ last'.op = "schedule" =>
        \A i, j \in 1..Len(store') :
          (/\ i < j
           /\ store'[i].status = "pending"
           /\ store'[j].status = "pending"
           /\ HasTime(store'[i])
           /\ HasTime(store'[j]))
            => store'[i].scheduled_time # store'[j].scheduled_time ]_vars

\* ---------------------------------------------------------- daemon liveness
\* a pass has just loaded the store and the record with this id is due in it
PassStartsWithDue(id) ==
  /\ last.pc = "loop"
  /\ last.k = 1
  /\ \E j \in 1..Len(store) : store[j].id = id /\ IsDueAt(store[j], last.t)

LeftPendingInPass(id) ==
  /\ last.pc \in {"saved", "sleep", "start"}
  /\ \E j \in 1..Len(store) : store[j].id = id /\ store[j].status \in Terminal

\* C34: while the daemon keeps running and every publish call returns a
\* result, a pending record whose scheduled_time has come when a pass
\* starts leaves pending for a terminal status in that pass.
C34_DueRecordLeavesPending ==
  \A id \in 1..Len(DaemonTexts) : PassStartsWithDue(id) ~> LeftPendingInPass(id)

C34_Witness ==
  /\ last.begun = 2
  /\ last.pc = "saved"
  /\ Len(store) = 3
  /\ store[1].status \in Terminal
  /\ store[2].status \in Terminal
  /\ fromisoformat(store[2].scheduled_time) = last.t
  /\ store[3].status = "pending"


\* ------------------------------------------------------- interleaving claim
\* C35: when a stock and an execute pass on the same store file have both
\* finished, the store holds every stocked record, and every record the
\* pass published has left pending.
C35_NothingLostByInterleaving ==
  (last.stock.pc = "done" /\ last.exec.pc = "done") =>
    /\ \A id \in 1..(nextId - 1) : id \in Ids(store)
    /\ \A j \in 1..Len(store) :
         calls[store[j].id] > 0 => store[j].status \in Terminal


\* ------------------------------------------------------------ reply claims
\* C36: after a run the persisted last_mention_id is not newer than any
\* mention that failed in the run, and when the run moved it, it is the id
\* of a mention the run processed.
C36_CursorNeverPassesFailure ==
  [][ last'.op = "reply_run" =>
        /\ \A f \in last'.failed : store'.last_mention_id < f
        /\ store'.last_mention_id # store.last_mention_id =>
             store'.last_mention_id \in last'.done ]_vars

\* C37: over any sequence of runs each mention receives at most one posted
\* reply.
C37_AtMostOneReply == \A id \in 1..MaxMentions : calls[id] <= 1

C37_Witness ==
  /\ last.op = "reply_run"
  /\ ~ last.dry_run
  /\ last.fetched = << 2 >>
  /\ last.replied = {2}
  /\ calls[1] = 1
  /\ calls[2] = 1
  /\ store.last_mention_id = 2

\* C38: a run_quote_retweet call posts at most one quote; a quote is posted
\* only when every earlier successful quote is at least the limiting
\* interval old, and only of a tweet that is not in the persisted quoted list
\* and not written by the account; the persisted list never holds more than
\* 50 ids; a dry run or a quote that did not succeed leaves the persisted
\* state as it was.
C38_QuoteOnceRateLimited ==
  [][ last'.op = "quote_run" =>
        /\ Len(history') <= Len(history) + 1
        /\ calls' <= calls + 1
        /\ Len(history') > Len(history) =>
             /\ \A i \in 1..Len(history) : now' - history[i].at >= QuoteInterval
             /\ history'[Len(history')].id \notin Range(store.quoted_tweet_ids)
             /\ last'.target \in 1..Len(last'.tweets)
             /\ last'.tweets[last'.target].id = history'[Len(history')].id
             /\ last'.tweets[last'.target].author_id # OwnAuthor
        /\ Len(store'.quoted_tweet_ids) <= KeepQuoted
        /\ (last'.dry_run \/ last'.oc # "ok" \/ history' = history) => store' = store
    ]_vars

\* a quote posted from a full list: the oldest id was dropped, and the tweet
\* taken is the second one found because the first was the account's own
C38_Witness ==
  /\ last.op = "quote_run"
  /\ last.posted
  /\ last.target = 2
  /\ last.tweets[1].author_id = OwnAuthor
  /\ Len(history) = 2
  /\ Len(store.quoted_tweet_ids) = KeepQuoted
  /\ store.quoted_tweet_ids[1] = 2
  /\ store.quoted_tweet_ids[KeepQuoted] = KeepQuoted + 1
  /\ store.last_quote_time = isoformat(now)

\* C39: generate_tweet calls the language model at most max_retries times
\* and stops; a text it returns is the text that passed validate_tweet, so
\* its length is at most 140; when max_retries attempts have failed
\* validation it has raised an error and returned no text.
C39_BoundedRetries ==
  /\ calls <= store.max_retries
  /\ store.pc = "loop" => calls < store.max_retries
  /\ store.pc = "returned" =>
       /\ last.returned # NoText
       /\ last.returned = last.text
       /\ validate_tweet(last.returned)[1]
       /\ last.returned.length <= LengthLimit
  /\ (store.pc # "idle" /\ Len(history) = store.max_retries) =>
       /\ store.pc = "raised"
       /\ last.error = "ValueError"
       /\ last.returned = NoText

\* the third of three attempts fails like the two before it
C39_Witness ==
  /\ store.pc = "raised"
  /\ store.max_retries = 3
  /\ calls = 3
  /\ history = << "over_limit", "too_short", "hashtag" >>
  /\ last.error = "ValueError"

\* C40: a text without hashtag, banned expression, URL or mention is valid
\* when its length is between 10 and 140 inclusive, and invalid when its
\* length is 141 or more (over the limit) or below 10 (too short).
C40_LengthRuleOfTests ==
  (last.op = "validate_tweet" /\ store.marks = {}) =>
    /\ (10 <= store.length /\ store.length <= 140) => last.valid
    /\ store.length >= 141 => (~last.valid /\ last.issue = "over_limit")
    /\ store.length < 10 => (~last.valid /\ last.issue = "too_short")

====
